---- MODULE Spec2Model ----
(***************************************************************************)
(* Model of the three bookmark scripts of browser-bookmark-sync:           *)
(*   scripts/fix_nested_folders.py      (flatten_nested_folders, main)     *)
(*   archive/scripts/export_to_safari.py (get_children, cnt, module body)  *)
(*   scripts/analyze_bookmarks.py       (extract_domain, module body)      *)
(* A behaviour is one run of one script against one file-system content.   *)
(***************************************************************************)
EXTENDS Integers, Sequences, FiniteSets, TLC

VARIABLES
    script,     \* which script this run executes: "fix", "export" or "analyze"
    pc,         \* the statement the run is at, or "done" / a fault
    plist,      \* the file ~/Library/Safari/Bookmarks.plist
    backup,     \* the file Bookmarks.plist.nested_fix_backup
    bak3,       \* the file Bookmarks.plist.bak3
    db,         \* the file places.sqlite with its moz_bookmarks/moz_places rows
    json,       \* the file unique_bookmarks.json
    orig,       \* the files as they were before the run
    data,       \* the document in memory (data / fixed_data)
    root,       \* export_to_safari: root
    bookmarks,  \* export_to_safari: bookmarks; analyze_bookmarks: bookmarks
    counts,     \* export_to_safari: (b, f)
    domains,    \* analyze_bookmarks: the Counter, in insertion order
    hosting,    \* analyze_bookmarks: the hosting dict
    idx         \* analyze_bookmarks: how far the current for-loop has got

vars == <<script, pc, plist, backup, bak3, db, json, orig, data, root,
          bookmarks, counts, domains, hosting, idx>>

(***************************************************************************)
(* Bounds of the input domains.                                            *)
(***************************************************************************)
MaxNodes == 4
MaxRows == 3
MaxForest == 5
MaxRecords == 2

(***************************************************************************)
(* Plist nodes.  A dict of the plist is a record; a key the dict does not  *)
(* carry reads as "" (what node.get(key, '') returns) and as <<>> for      *)
(* Children (node.get('Children', [])).  WebBookmarkUUID is the node's     *)
(* unique identifier: here its path from the root of the document.         *)
(***************************************************************************)
TypeList == "WebBookmarkTypeList"
TypeLeaf == "WebBookmarkTypeLeaf"
NoType == ""
NotADict == "str"

Titles == {"A", "B"}
URLs == {"X"}

Dict(type, title, url, urititle, children, uuid) ==
    [WebBookmarkType |-> type, Title |-> title, URLString |-> url,
     URIDictionary |-> urititle, Children |-> children, WebBookmarkUUID |-> uuid]

Node(type, title, url, children) == Dict(type, title, url, "", children, <<>>)

isinstance_dict(node) == node.WebBookmarkType # NotADict

HasChildrenKey(node) == node.WebBookmarkType \in {TypeList, NoType}

RECURSIVE WithUUID(_, _)
WithUUID(node, path) ==
    [node EXCEPT !.WebBookmarkUUID = path,
                 !.Children = [i \in DOMAIN node.Children |->
                                  WithUUID(node.Children[i], Append(path, i))]]

\* The documents a Bookmarks.plist can hold are drawn node by node, in
\* depth-first order: an outline is the sequence of the nodes drawn, each with
\* its depth.  `typed` leaves out the nodes that are no Folder and no Bookmark.
NodeChoices(typed) ==
    {Node(TypeList, t, "", <<>>) : t \in Titles}
    \cup {Node(TypeLeaf, "", u, <<>>) : u \in URLs}
    \cup (IF typed THEN {} ELSE {Node(NoType, "", "", <<>>), Node(NotADict, "", "", <<>>)})

\* the depths the next node of the outline can have
DepthChoices(outline) ==
    IF outline = <<>> THEN {0}
    ELSE LET last == outline[Len(outline)]
         IN  1..(IF HasChildrenKey(last.node) THEN last.depth + 1 ELSE last.depth)

\* the tree rooted at entry i of the outline
RECURSIVE TreeAt(_, _)
TreeAt(outline, i) ==
    LET d == outline[i].depth
        Below(k) == k > i /\ \A j \in (i + 1)..k : outline[j].depth > d
        IsChild(k) == Below(k) /\ outline[k].depth = d + 1
        kids == SelectSeq([k \in 1..Len(outline) |-> k], IsChild)
    IN  [outline[i].node EXCEPT !.Children = [c \in DOMAIN kids |-> TreeAt(outline, kids[c])]]

DocumentOf(outline) == WithUUID(TreeAt(outline, 1), <<>>)

(***************************************************************************)
(* fix_nested_folders.py: flatten_nested_folders                           *)
(***************************************************************************)
RECURSIVE flatten_nested_folders(_), FlattenEach(_), FlattenLoop(_, _)

\* [flatten_nested_folders(c) for c in children]
FlattenEach(children) ==
    [i \in DOMAIN children |-> flatten_nested_folders(children[i])]

\* the loop without the test child_name == name: every child folder is spliced
FlattenLoop_SpliceAnyFolder(name, children) ==
    IF children = <<>> THEN <<>>
    ELSE LET child == Head(children)
             out == IF isinstance_dict(child)
                    THEN IF child.WebBookmarkType = TypeList
                         THEN FlattenEach(child.Children)
                         ELSE <<flatten_nested_folders(child)>>
                    ELSE <<child>>
         IN  out \o FlattenLoop(name, Tail(children))

\* the for-loop over the children of a list node called `name`
FlattenLoop(name, children) ==
    IF children = <<>> THEN <<>>
    ELSE LET child == Head(children)
             out == IF isinstance_dict(child)
                    THEN IF child.WebBookmarkType = TypeList /\ child.Title = name
                         THEN FlattenEach(child.Children)
                         ELSE <<flatten_nested_folders(child)>>
                    ELSE <<child>>
         IN  out \o FlattenLoop(name, Tail(children))

flatten_nested_folders(node) ==
    IF ~isinstance_dict(node) THEN node
    ELSE IF node.WebBookmarkType = TypeList
         THEN [node EXCEPT !.Children = FlattenLoop(node.Title, node.Children)]
         ELSE IF HasChildrenKey(node)
              THEN [node EXCEPT !.Children = FlattenEach(node.Children)]
              ELSE node

(***************************************************************************)
(* export_to_safari.py: the rows of places.sqlite.  A row is the result    *)
(* row of the LEFT JOIN of get_children; SQL NULL is NULL for strings and  *)
(* NULLID for the parent column.                                           *)
(***************************************************************************)
NULL == "<NULL>"
NULLID == -1

\* Python truth of a str-or-None value (`title or ...`, `and url`)
Truthy(s) == s \notin {NULL, ""}

RowVariants ==
    { [type |-> 2, title |-> "A",  url |-> NULL],
      [type |-> 1, title |-> NULL, url |-> "u"],
      [type |-> 1, title |-> "A",  url |-> NULL],
      [type |-> 3, title |-> "A",  url |-> NULL] }

Row(id, v, parent, position) ==
    [id |-> id, type |-> v.type, title |-> v.title, url |-> v.url,
     parent |-> parent, position |-> position]

Siblings(t, parent) == {i \in DOMAIN t : t[i].parent = parent}

\* the table after inserting a row at `position` among the rows of `parent`
InsertRow(t, v, parent, position) ==
    Append([i \in DOMAIN t |->
               IF t[i].parent = parent /\ parent # NULLID /\ t[i].position >= position
               THEN [t[i] EXCEPT !.position = @ + 1] ELSE t[i]],
           Row(Len(t) + 1, v, parent, position))

\* the rows a table of the store can be extended by: under the root level or
\* a folder row, at any position among the rows already there
ParentChoices(t) == {0, NULLID} \cup {i \in DOMAIN t : t[i].type = 2}
PositionChoices(t, parent) ==
    IF parent = NULLID THEN {0} ELSE 0..Cardinality(Siblings(t, parent))

\* db is a store of the n rows inserted one after the other into t
RECURSIVE StoreOf(_, _)
StoreOf(t, n) ==
    IF n = 0 THEN db = [state |-> "ok", content |-> t]
    ELSE \E v \in RowVariants, parent \in ParentChoices(t) :
            \E position \in PositionChoices(t, parent) :
               StoreOf(InsertRow(t, v, parent, position), n - 1)

(***************************************************************************)
(* Files: a file is missing, ok, unreadable (no permission) or corrupt     *)
(* (its bytes are no document), and an ok file has a content.              *)
(***************************************************************************)
NoDoc == Node(NoType, "", "", <<>>)
File(state, content) == [state |-> state, content |-> content]
Missing == File("missing", NoDoc)
NoTable == File("missing", <<>>)

\* plist holds a document of n more nodes than the outline
RECURSIVE PlistOf(_, _)
PlistOf(outline, n) ==
    IF n = 0 THEN plist = [state |-> "ok", content |-> DocumentOf(outline)]
    ELSE \E node \in NodeChoices(FALSE), d \in DepthChoices(outline) :
            PlistOf(Append(outline, [node |-> node, depth |-> d]), n - 1)

\* bookmarks is a forest of Folder and Bookmark nodes, of n more nodes than
\* the outline, which starts with a folder that holds the forest
RECURSIVE ForestOf(_, _)
ForestOf(outline, n) ==
    IF n = 0 THEN bookmarks = DocumentOf(outline).Children
    ELSE \E node \in NodeChoices(TRUE), d \in DepthChoices(outline) :
            ForestOf(Append(outline, [node |-> node, depth |-> d]), n - 1)

\* shutil.copy / shutil.copy2: the copy has the bytes of the source
copy(src) == File(src.state, src.content)

(***************************************************************************)
(* export_to_safari.py: get_children, cnt                                  *)
(***************************************************************************)
RECURSIVE SortByPosition(_)
SortByPosition(S) ==
    IF S = {} THEN <<>>
    ELSE LET r == CHOOSE x \in S : \A y \in S : x.position <= y.position
         IN  <<r>> \o SortByPosition(S \ {r})

\* the query without ORDER BY b.position: the rows come in id order
SelectChildren_ById(parent_id) ==
    LET ids == Siblings(db.content, parent_id)
        RECURSIVE ById(_)
        ById(S) == IF S = {} THEN <<>>
                   ELSE LET m == CHOOSE x \in S : \A y \in S : x <= y
                        IN  <<db.content[m]>> \o ById(S \ {m})
    IN  ById(ids)

\* SELECT ... WHERE b.parent = ? ORDER BY b.position
SelectChildren(parent_id) ==
    SortByPosition({db.content[i] : i \in Siblings(db.content, parent_id)})

\* uuid.uuid4(): a fresh identifier; the model names a node after its row
uuid4(row) == <<row.id>>

\* url[:50]; the URLs of the model are shorter than 50 characters
Prefix50(url) == url

RECURSIVE get_children(_), RowLoop(_)
RowLoop(rs) ==
    IF rs = <<>> THEN <<>>
    ELSE LET row == Head(rs)
             item == IF row.type = 2
                     THEN <<Dict(TypeList, IF Truthy(row.title) THEN row.title ELSE "Folder",
                                 "", "", get_children(row.id), uuid4(row))>>
                     ELSE IF row.type = 1 /\ Truthy(row.url)
                          THEN <<Dict(TypeLeaf, "", row.url,
                                      IF Truthy(row.title) THEN row.title
                                      ELSE Prefix50(row.url),
                                      <<>>, uuid4(row))>>
                          ELSE <<>>
         IN  item \o RowLoop(Tail(rs))

get_children(parent_id) == RowLoop(SelectChildren(parent_id))

RECURSIVE cnt(_)
\* cnt without b += cb; f += cf: what is below a folder is not counted
cnt_TopLevelOnly(items) ==
    IF items = <<>> THEN <<0, 0>>
    ELSE LET i == Head(items)
             rest == cnt(Tail(items))
         IN  IF i.WebBookmarkType = TypeLeaf
             THEN <<rest[1] + 1, rest[2]>>
             ELSE <<rest[1], rest[2] + 1>>

cnt(items) ==
    IF items = <<>> THEN <<0, 0>>
    ELSE LET i == Head(items)
             rest == cnt(Tail(items))
         IN  IF i.WebBookmarkType = TypeLeaf
             THEN <<rest[1] + 1, rest[2]>>
             ELSE LET c == cnt(i.Children)
                  IN  <<rest[1] + c[1], rest[2] + 1 + c[2]>>

\* SELECT id FROM moz_bookmarks WHERE parent=0 OR parent IS NULL
RootCandidates == {i \in DOMAIN db.content : db.content[i].parent \in {0, NULLID}}

\* the dict `data` of the export: the envelope around bookmarks
Envelope(items) ==
    Dict(TypeList, "", "", "",
         << Dict(TypeList, "BookmarksBar", "", "", items, <<0, 1>>),
            Dict(TypeList, "BookmarksMenu", "", "", <<>>, <<0, 2>>) >>,
         <<0>>)

(***************************************************************************)
(* analyze_bookmarks.py.  A str is the sequence of its characters.         *)
(***************************************************************************)
UrlWWW == <<"h", "t", "t", "p", "s", ":", "/", "/", "W", "W", "W", ".", "E", "x", "a", "m", "p", "l", "e", ".", "c", "o", "m", "/", "p", "a", "g", "e">>
UrlPlain == <<"h", "t", "t", "p", ":", "/", "/", "e", "x", "a", "m", "p", "l", "e", ".", "c", "o", "m", "/", "o", "t", "h", "e", "r">>
UrlNotAUrl == <<"n", "o", "t", " ", "a", " ", "u", "r", "l">>
UrlFoo == <<"h", "t", "t", "p", "s", ":", "/", "/", "f", "o", "o", ".", "g", "i", "t", "h", "u", "b", ".", "i", "o", "/", "a">>
UrlBar == <<"h", "t", "t", "p", ":", "/", "/", "b", "a", "r", ".", "g", "i", "t", "h", "u", "b", ".", "i", "o">>
UrlBracket == <<"h", "t", "t", "p", ":", "/", "/", "[", "b", "a", "d">>

InputURLs == {UrlWWW, UrlPlain, UrlNotAUrl, UrlFoo, UrlBar, UrlBracket}

Unknown == <<"u", "n", "k", "n", "o", "w", "n">>
Www == <<"w", "w", "w", ".">>

HostingSuffixes ==
    { <<"g", "i", "t", "h", "u", "b", ".", "i", "o">>,
      <<"v", "e", "r", "c", "e", "l", ".", "a", "p", "p">>,
      <<"n", "e", "t", "l", "i", "f", "y", ".", "a", "p", "p">>,
      <<"p", "a", "g", "e", "s", ".", "d", "e", "v">>,
      <<"n", "e", "o", "c", "i", "t", "i", "e", "s", ".", "o", "r", "g">> }

UpperCase == <<"A", "B", "C", "D", "E", "F", "G", "H", "I", "J", "K", "L", "M", "N", "O", "P", "Q", "R", "S", "T", "U", "V", "W", "X", "Y", "Z">>
LowerCase == <<"a", "b", "c", "d", "e", "f", "g", "h", "i", "j", "k", "l", "m", "n", "o", "p", "q", "r", "s", "t", "u", "v", "w", "x", "y", "z">>
Digits == <<"0", "1", "2", "3", "4", "5", "6", "7", "8", "9">>

Chars(s) == {s[i] : i \in DOMAIN s}

\* str.find(c, start) with 1-based positions; 0 when c does not occur
Find(s, c, start) ==
    IF \E i \in start..Len(s) : s[i] = c
    THEN CHOOSE i \in start..Len(s) : s[i] = c /\ \A j \in start..(i - 1) : s[j] # c
    ELSE 0

LowerChar(c) ==
    IF \E i \in DOMAIN UpperCase : UpperCase[i] = c
    THEN LowerCase[CHOOSE i \in DOMAIN UpperCase : UpperCase[i] = c]
    ELSE c

lower(s) == [i \in DOMAIN s |-> LowerChar(s[i])]

startswith(s, prefix) ==
    Len(s) >= Len(prefix) /\ SubSeq(s, 1, Len(prefix)) = prefix

endswith(s, suffix) ==
    Len(s) >= Len(suffix) /\ SubSeq(s, Len(s) - Len(suffix) + 1, Len(s)) = suffix

\* str.lstrip of the C0 control characters and the space
RECURSIVE lstrip(_)
lstrip(s) == IF s # <<>> /\ Head(s) = " " THEN lstrip(Tail(s)) ELSE s

scheme_chars == Chars(LowerCase) \cup Chars(UpperCase) \cup Chars(Digits) \cup {"+", "-", "."}

\* _check_bracketed_host: the host between [ and ] is an IP literal
BracketedHostOk(netloc) ==
    LET open == Find(netloc, "[", 1)
        close == Find(netloc, "]", open)
    IN  /\ close > open + 1
        /\ \A i \in (open + 1)..(close - 1) :
              netloc[i] \in Chars(Digits) \cup {"a", "b", "c", "d", "e", "f", ":", "."}

\* urllib.parse.urlparse(url): whether it raises ValueError, and .netloc
urlparse(url) ==
    LET u0 == lstrip(url)
        i == Find(u0, ":", 1)
        hasScheme == /\ i > 1
                     /\ u0[1] \in Chars(LowerCase) \cup Chars(UpperCase)
                     /\ \A k \in 1..(i - 1) : u0[k] \in scheme_chars
        u1 == IF hasScheme THEN SubSeq(u0, i + 1, Len(u0)) ELSE u0
        delims == {Find(u1, c, 3) : c \in {"/", "?", "#"}} \ {0}
        delim == IF delims = {} THEN Len(u1) + 1
                 ELSE CHOOSE d \in delims : \A e \in delims : d <= e
        netloc == SubSeq(u1, 3, delim - 1)
    IN  IF startswith(u1, <<"/", "/">>)
        THEN [raised |-> \/ ("[" \in Chars(netloc)) # ("]" \in Chars(netloc))
                         \/ "[" \in Chars(netloc) /\ ~BracketedHostOk(netloc),
              netloc |-> netloc]
        ELSE [raised |-> FALSE, netloc |-> <<>>]

extract_domain(url) ==
    LET parsed == urlparse(url)
    IN  IF parsed.raised THEN Unknown
        ELSE LET domain == lower(parsed.netloc)
             IN  IF startswith(domain, Www)
                 THEN SubSeq(domain, 5, Len(domain))
                 ELSE domain

\* domains[domain] += 1 on a Counter kept in insertion order
CounterIncr(c, domain) ==
    IF \E i \in DOMAIN c : c[i].domain = domain
    THEN [i \in DOMAIN c |->
            IF c[i].domain = domain THEN [c[i] EXCEPT !.count = @ + 1] ELSE c[i]]
    ELSE Append(c, [domain |-> domain, count |-> 1])

\* the rollup with hosting[h] += 1
RollupDomain_AddsOne(hs, entry) ==
    [h \in HostingSuffixes |->
        IF endswith(entry.domain, h) THEN hs[h] + 1 ELSE hs[h]]

\* for h in hosting: if domain.endswith(h): hosting[h] += domains[domain]
RollupDomain(hs, entry) ==
    [h \in HostingSuffixes |->
        IF endswith(entry.domain, h) THEN hs[h] + entry.count ELSE hs[h]]

EmptyHosting == [h \in HostingSuffixes |-> 0]

\* the lists of records unique_bookmarks.json can hold
RECURSIVE RecordLists(_)
RecordLists(n) ==
    IF n = 0 THEN {<<>>}
    ELSE RecordLists(n - 1)
         \cup {Append(l, [url |-> u]) : l \in {x \in RecordLists(n - 1) : Len(x) = n - 1},
                                        u \in InputURLs}

(***************************************************************************)
(* The state before a run.                                                 *)
(***************************************************************************)
\* a Bookmarks.plist the export overwrites
SafariDoc ==
    WithUUID(Node(TypeList, "",  "",
                  <<Node(TypeList, "BookmarksBar", "", <<Node(TypeLeaf, "", "X", <<>>)>>)>>),
             <<>>)

Init ==
    /\ pc = "start"
    /\ backup = Missing
    /\ bak3 = Missing
    /\ data = NoDoc
    /\ root = 0
    /\ bookmarks = <<>>
    /\ counts = <<0, 0>>
    /\ domains = <<>>
    /\ hosting = EmptyHosting
    /\ idx = 0
    /\ \/ /\ script = "fix"
          /\ \/ \E n \in 1..MaxNodes : PlistOf(<<>>, n)
             \/ plist \in {Missing, File("unreadable", NoDoc), File("corrupt", NoDoc)}
          /\ db = NoTable
          /\ json = NoTable
       \/ /\ script = "export"
          /\ \/ \E n \in 0..MaxRows : StoreOf(<<>>, n)
             \/ db \in {NoTable, File("unreadable", <<>>)}
          /\ plist \in {File("ok", SafariDoc)}
                       \cup (IF Len(db.content) <= 1 THEN {Missing} ELSE {})
          /\ json = NoTable
       \/ /\ script = "analyze"
          /\ plist = Missing
          /\ db = NoTable
          /\ json \in {File("ok", l) : l \in RecordLists(MaxRecords)} \cup {NoTable}
    /\ orig = [plist |-> plist, backup |-> backup, bak3 |-> bak3, db |-> db, json |-> json]

(***************************************************************************)
(* fix_nested_folders.py: main                                             *)
(***************************************************************************)
\* shutil.copy2(SAFARI_PLIST, BACKUP_PATH)
FixBackup ==
    /\ script = "fix" /\ pc = "start"
    /\ IF plist.state \in {"missing", "unreadable"}
       THEN pc' = "fault_backup" /\ UNCHANGED backup
       ELSE pc' = "load" /\ backup' = copy(plist)
    /\ UNCHANGED <<script, plist, bak3, db, json, orig, data, root, bookmarks,
                   counts, domains, hosting, idx>>

\* data = plistlib.load(f)
FixLoad ==
    /\ script = "fix" /\ pc = "load"
    /\ IF plist.state = "corrupt"
       THEN pc' = "fault_load" /\ UNCHANGED data
       ELSE pc' = "flatten" /\ data' = plist.content
    /\ UNCHANGED <<script, plist, backup, bak3, db, json, orig, root, bookmarks,
                   counts, domains, hosting, idx>>

\* fixed_data = flatten_nested_folders(data)
FixFlatten ==
    /\ script = "fix" /\ pc = "flatten"
    /\ data' = flatten_nested_folders(data)
    /\ pc' = "write"
    /\ UNCHANGED <<script, plist, backup, bak3, db, json, orig, root, bookmarks,
                   counts, domains, hosting, idx>>

\* with open(path, 'wb') as f: plistlib.dump(doc, f): the open fails and the
\* file is as it was, or the open truncates it and the dump fails or succeeds
WriteOutcomes == {"written", "open_fails", "dump_fails"}
WriteResult(outcome, old, doc) ==
    CASE outcome = "written" -> File("ok", doc)
      [] outcome = "open_fails" -> old
      [] outcome = "dump_fails" -> File("corrupt", NoDoc)

\* main with the backup removed in a finally: a failed write removes it too
FixWrite_RemovesBackupOnFailure ==
    /\ script = "fix" /\ pc = "write"
    /\ \E outcome \in WriteOutcomes :
          /\ plist' = WriteResult(outcome, plist, data)
          /\ pc' = IF outcome = "written" THEN "remove" ELSE "fault_write"
          /\ backup' = IF outcome = "written" THEN backup ELSE Missing
    /\ UNCHANGED <<script, bak3, db, json, orig, data, root, bookmarks,
                   counts, domains, hosting, idx>>

FixWrite ==
    /\ script = "fix" /\ pc = "write"
    /\ \E outcome \in WriteOutcomes :
          /\ plist' = WriteResult(outcome, plist, data)
          /\ pc' = IF outcome = "written" THEN "remove" ELSE "fault_write"
    /\ UNCHANGED <<script, backup, bak3, db, json, orig, data, root, bookmarks,
                   counts, domains, hosting, idx>>

\* os.remove(BACKUP_PATH)
FixRemove ==
    /\ script = "fix" /\ pc = "remove"
    /\ backup' = Missing
    /\ pc' = "done"
    /\ UNCHANGED <<script, plist, bak3, db, json, orig, data, root, bookmarks,
                   counts, domains, hosting, idx>>

(***************************************************************************)
(* export_to_safari.py: the module body                                    *)
(***************************************************************************)
\* conn = sqlite3.connect(str(wf_db)): a missing file is created, empty
ExportConnect ==
    /\ script = "export" /\ pc = "start"
    /\ CASE db.state = "missing" -> db' = File("empty", <<>>) /\ pc' = "root"
         [] db.state = "unreadable" -> UNCHANGED db /\ pc' = "fault_connect"
         [] OTHER -> UNCHANGED db /\ pc' = "root"
    /\ UNCHANGED <<script, plist, backup, bak3, json, orig, data, root, bookmarks,
                   counts, domains, hosting, idx>>

\* root = conn.execute(...).fetchone()[0]: no table, or no row (None[0]), is a
\* fault; of several rows the query, which has no ORDER BY, yields any first
ExportRoot ==
    /\ script = "export" /\ pc = "root"
    /\ IF db.state = "empty" \/ RootCandidates = {}
       THEN pc' = "fault_root" /\ UNCHANGED root
       ELSE \E r \in RootCandidates : root' = r /\ pc' = "build"
    /\ UNCHANGED <<script, plist, backup, bak3, db, json, orig, data, bookmarks,
                   counts, domains, hosting, idx>>

\* bookmarks = get_children(root); b, f = cnt(bookmarks)
ExportBuild ==
    /\ script = "export" /\ pc = "build"
    /\ bookmarks' = get_children(root)
    /\ counts' = cnt(bookmarks')
    /\ pc' = "backup"
    /\ UNCHANGED <<script, plist, backup, bak3, db, json, orig, data, root,
                   domains, hosting, idx>>

\* shutil.copy(safari_path, ...bak3); data = {...}
ExportBackup ==
    /\ script = "export" /\ pc = "backup"
    /\ IF plist.state \in {"missing", "unreadable"}
       THEN pc' = "fault_backup" /\ UNCHANGED <<bak3, data>>
       ELSE pc' = "write" /\ bak3' = copy(plist) /\ data' = Envelope(bookmarks)
    /\ UNCHANGED <<script, plist, backup, db, json, orig, root, bookmarks,
                   counts, domains, hosting, idx>>

ExportWrite ==
    /\ script = "export" /\ pc = "write"
    /\ \E outcome \in WriteOutcomes :
          /\ plist' = WriteResult(outcome, plist, data)
          /\ pc' = IF outcome = "written" THEN "close" ELSE "fault_write"
    /\ UNCHANGED <<script, backup, bak3, db, json, orig, data, root, bookmarks,
                   counts, domains, hosting, idx>>

\* conn.close()
ExportClose ==
    /\ script = "export" /\ pc = "close"
    /\ pc' = "done"
    /\ UNCHANGED <<script, plist, backup, bak3, db, json, orig, data, root,
                   bookmarks, counts, domains, hosting, idx>>

(***************************************************************************)
(* analyze_bookmarks.py: the module body                                   *)
(***************************************************************************)
\* bookmarks = json.load(f); domains = Counter()
AnalyzeLoad ==
    /\ script = "analyze" /\ pc = "start"
    /\ IF json.state # "ok"
       THEN pc' = "fault_load" /\ UNCHANGED <<bookmarks, idx>>
       ELSE pc' = "count" /\ bookmarks' = json.content /\ idx' = 1
    /\ UNCHANGED <<script, plist, backup, bak3, db, json, orig, data, root,
                   counts, domains, hosting>>

\* one turn of: for bm in bookmarks
AnalyzeCount ==
    /\ script = "analyze" /\ pc = "count" /\ idx <= Len(bookmarks)
    /\ domains' = CounterIncr(domains, extract_domain(bookmarks[idx].url))
    /\ idx' = idx + 1
    /\ UNCHANGED <<script, pc, plist, backup, bak3, db, json, orig, data, root,
                   bookmarks, counts, hosting>>

\* the loop is over; hosting = {...: 0}
AnalyzeCounted ==
    /\ script = "analyze" /\ pc = "count" /\ idx > Len(bookmarks)
    /\ hosting' = EmptyHosting
    /\ idx' = 1
    /\ pc' = "rollup"
    /\ UNCHANGED <<script, plist, backup, bak3, db, json, orig, data, root,
                   bookmarks, counts, domains>>

\* one turn of: for domain in domains
AnalyzeRollup ==
    /\ script = "analyze" /\ pc = "rollup" /\ idx <= Len(domains)
    /\ hosting' = RollupDomain(hosting, domains[idx])
    /\ idx' = idx + 1
    /\ UNCHANGED <<script, pc, plist, backup, bak3, db, json, orig, data, root,
                   bookmarks, counts, domains>>

AnalyzeDone ==
    /\ script = "analyze" /\ pc = "rollup" /\ idx > Len(domains)
    /\ pc' = "done"
    /\ UNCHANGED <<script, plist, backup, bak3, db, json, orig, data, root,
                   bookmarks, counts, domains, hosting, idx>>

Next ==
    \/ FixBackup \/ FixLoad \/ FixFlatten \/ FixWrite \/ FixRemove
    \/ ExportConnect \/ ExportRoot \/ ExportBuild \/ ExportBackup
    \/ ExportWrite \/ ExportClose
    \/ AnalyzeLoad \/ AnalyzeCount \/ AnalyzeCounted \/ AnalyzeRollup \/ AnalyzeDone

Spec == Init /\ [][Next]_vars

(***************************************************************************)
(* cnt applied to a forest of Folder and Bookmark nodes.                   *)
(***************************************************************************)
InitCnt ==
    /\ script = "cnt"
    /\ pc = "start"
    /\ plist = Missing /\ backup = Missing /\ bak3 = Missing
    /\ db = NoTable /\ json = NoTable
    /\ orig = [plist |-> plist, backup |-> backup, bak3 |-> bak3, db |-> db, json |-> json]
    /\ data = NoDoc
    /\ root = 0
    /\ \E n \in 0..MaxForest :
          ForestOf(<<[node |-> Node(TypeList, "", "", <<>>), depth |-> 0]>>, n)
    /\ counts = <<0, 0>>
    /\ domains = <<>>
    /\ hosting = EmptyHosting
    /\ idx = 0

CntApply ==
    /\ script = "cnt" /\ pc = "start"
    /\ counts' = cnt(bookmarks)
    /\ pc' = "done"
    /\ UNCHANGED <<script, plist, backup, bak3, db, json, orig, data, root,
                   bookmarks, domains, hosting, idx>>

NextCnt == CntApply

SpecCnt == InitCnt /\ [][NextCnt]_vars
(***************************************************************************)
(* Reading a document: its nodes in depth-first, left-to-right order.      *)
(***************************************************************************)
RECURSIVE Preorder(_), PreorderForest(_)
Preorder(node) == <<node>> \o PreorderForest(node.Children)
PreorderForest(forest) ==
    IF forest = <<>> THEN <<>>
    ELSE Preorder(Head(forest)) \o PreorderForest(Tail(forest))

Range(s) == {s[i] : i \in DOMAIN s}

RECURSIVE NodeAt(_, _)
NodeAt(doc, path) ==
    IF path = <<>> THEN doc ELSE NodeAt(doc.Children[Head(path)], Tail(path))

\* the node without its subtree
Label(node) == [node EXCEPT !.Children = <<>>]

IsFolder(node) == node.WebBookmarkType = TypeList
IsBookmark(node) == node.WebBookmarkType = TypeLeaf

\* n, a node of doc, is a Folder whose parent is a Folder of the same Title
SameTitledAsParent(doc, n) ==
    /\ n.WebBookmarkUUID # <<>>
    /\ IsFolder(n)
    /\ LET parent == NodeAt(doc, SubSeq(n.WebBookmarkUUID, 1, Len(n.WebBookmarkUUID) - 1))
       IN  IsFolder(parent) /\ parent.Title = n.Title

\* some Folder of doc has an immediate child Folder of its own Title
HasSameTitledChild(doc) ==
    \E n \in Range(Preorder(doc)) :
       /\ IsFolder(n)
       /\ \E i \in DOMAIN n.Children :
             IsFolder(n.Children[i]) /\ n.Children[i].Title = n.Title

\* fix_nested_folders.main has called flatten_nested_folders; data is its result
AfterFlatten == script = "fix" /\ pc \in {"write", "remove", "done", "fault_write"}

(***************************************************************************)
(* Properties of flatten_nested_folders                                   *)
(***************************************************************************)
\* C1: after one call of flatten_nested_folders on the root, no Folder has an
\* immediate child Folder of exactly its own Title (chains collapse in one pass).
C1_NoSameTitledChildAfterOnePass == AfterFlatten => ~HasSameTitledChild(data)

\* C2: flattening is idempotent: flattening the flattened document changes nothing.
C2_FlattenIdempotent == AfterFlatten => flatten_nested_folders(data) = data

\* C3: flattening is a pure structural rewrite: the only nodes of the input
\* missing from the output are Folders titled as their parent Folder; every
\* other node is still there with its type, title and URL; the retained nodes
\* are in the input's depth-first order; a document without a Folder titled
\* as its parent Folder comes out as it went in.
C3_PureStructuralRewrite ==
    AfterFlatten =>
        LET in == orig.plist.content
            inSeq == Preorder(in)
            outSeq == Preorder(data)
            outIds == {outSeq[j].WebBookmarkUUID : j \in DOMAIN outSeq}
            Kept(l) == l.WebBookmarkUUID \in outIds
        IN  /\ \A i \in DOMAIN inSeq :
                  inSeq[i].WebBookmarkUUID \notin outIds => SameTitledAsParent(in, inSeq[i])
            /\ \A i \in DOMAIN inSeq :
                  ~SameTitledAsParent(in, inSeq[i])
                      => \E j \in DOMAIN outSeq : Label(outSeq[j]) = Label(inSeq[i])
            /\ [j \in DOMAIN outSeq |-> Label(outSeq[j])]
                  = SelectSeq([i \in DOMAIN inSeq |-> Label(inSeq[i])], Kept)
            /\ (\A i \in DOMAIN inSeq : ~SameTitledAsParent(in, inSeq[i])) => data = in

\* a Folder was spliced away, and a Folder titled differently from its parent
\* Folder and a Bookmark below it were kept
C3_Witness ==
    /\ AfterFlatten
    /\ Len(Preorder(data)) < Len(Preorder(orig.plist.content))
    /\ \E n \in Range(Preorder(data)) :
          /\ IsFolder(n) /\ n.WebBookmarkUUID # <<>>
          /\ ~SameTitledAsParent(orig.plist.content, n)
          /\ \E i \in DOMAIN n.Children : IsBookmark(n.Children[i])

(***************************************************************************)
(* Properties of export_to_safari.py                                      *)
(***************************************************************************)
\* the row is a folder row, or a bookmark row with a URL
EmitsNode(row) == row.type = 2 \/ (row.type = 1 /\ row.url \notin {NULL, ""})

RowOf(node) == db.content[node.WebBookmarkUUID[1]]

\* items is, in ascending position order, one node per node-emitting row of
\* parent_id: a Folder for a folder row, a Bookmark with the row's URL otherwise
IsChildrenOf(parent_id, items) ==
    /\ {items[k].WebBookmarkUUID[1] : k \in DOMAIN items}
          = {i \in DOMAIN db.content :
                db.content[i].parent = parent_id /\ EmitsNode(db.content[i])}
    /\ \A k, l \in DOMAIN items : k < l => RowOf(items[k]).position < RowOf(items[l]).position
    /\ \A k \in DOMAIN items :
          IF RowOf(items[k]).type = 2
          THEN IsFolder(items[k]) /\ items[k].Children = get_children(RowOf(items[k]).id)
          ELSE IsBookmark(items[k]) /\ items[k].URLString = RowOf(items[k]).url

\* C4: for every parent id p, get_children(p) is, in ascending position order,
\* exactly one node per folder row and per bookmark row with a URL whose
\* parent is p, folders holding get_children of their id; a bookmark row
\* without URL and a row of another type have no node anywhere in the tree.
C4_GetChildren ==
    (script = "export" /\ pc = "backup") =>
        /\ bookmarks = get_children(root)
        /\ \A p \in DOMAIN db.content : IsChildrenOf(p, get_children(p))
        /\ \A n \in Range(PreorderForest(bookmarks)) :
              /\ EmitsNode(RowOf(n))
              /\ IsFolder(n) => IsChildrenOf(RowOf(n).id, n.Children)

\* the tree was built from two sibling rows whose positions reverse their ids
C4_Witness ==
    /\ script = "export" /\ pc = "backup"
    /\ Len(bookmarks) = 2
    /\ bookmarks[1].WebBookmarkUUID[1] > bookmarks[2].WebBookmarkUUID[1]

\* C5: cnt returns (b, f), b the number of Bookmark nodes of the forest and f
\* the number of its Folder nodes, at any depth, empty folders included.
C5_CntCounts ==
    (script = "cnt" /\ pc = "done") =>
        counts = << Cardinality({n \in Range(PreorderForest(bookmarks)) : IsBookmark(n)}),
                    Cardinality({n \in Range(PreorderForest(bookmarks)) : IsFolder(n)}) >>

\* cnt was applied to 3 bookmarks under a root folder with one nested empty folder
C5_Witness ==
    /\ script = "cnt" /\ pc = "done"
    /\ Len(bookmarks) = 1
    /\ Len(bookmarks[1].Children) = 4
    /\ \E i \in 1..4 : IsFolder(bookmarks[1].Children[i])
    /\ counts = <<3, 2>>

\* C6: when a write to the target is attempted, and when it has failed, the
\* backup copy exists and holds the target's content from before the write.
C6_BackupBeforeWrite ==
    /\ (script = "fix" /\ pc \in {"write", "fault_write"})
          => backup.state # "missing" /\ backup = orig.plist
    /\ (script = "export" /\ pc \in {"write", "fault_write"})
          => bak3.state # "missing" /\ bak3 = orig.plist

\* the write of the fixed document failed after truncating the target, whose
\* content before the run is in the backup
C6_Witness ==
    /\ script = "fix" /\ pc = "fault_write"
    /\ plist.state = "corrupt"
    /\ orig.plist.state = "ok"
    /\ backup = orig.plist
    /\ data # orig.plist.content

\* C7: with zero or several rows of parent 0 or NULL the export fails and
\* builds no tree.
C7_AmbiguousRootIsFatal ==
    (script = "export" /\ db.state = "ok" /\ Cardinality(RootCandidates) # 1)
        => pc \in {"start", "root", "fault_connect", "fault_root"}

\* C8: when the row source or the input file is missing or unreadable, the run
\* writes nothing and no file is created or altered.
C8_SourceUnavailableMutatesNothing ==
    (\/ script = "fix" /\ orig.plist.state \in {"missing", "unreadable"}
     \/ script = "export" /\ orig.db.state \in {"missing", "unreadable"})
        => /\ plist = orig.plist /\ backup = orig.backup /\ bak3 = orig.bak3
           /\ db = orig.db /\ json = orig.json
           /\ pc \in {"start", "root", "fault_backup", "fault_connect", "fault_root"}

(***************************************************************************)
(* Properties of analyze_bookmarks.py                                     *)
(***************************************************************************)
\* the domain the specification gives each URL of the model
ClaimedDomain(url) ==
    CASE url = UrlWWW -> SubSeq(lower(UrlWWW), 13, 23)
      [] url = UrlPlain -> SubSeq(UrlPlain, 8, 18)
      [] url = UrlFoo -> SubSeq(UrlFoo, 9, 21)
      [] url = UrlBar -> SubSeq(UrlBar, 8, 20)
      [] url = UrlNotAUrl -> Unknown
      [] url = UrlBracket -> Unknown

\* C9: every record is aggregated under its lowercased host without a leading
\* www., and under "unknown" when its URL cannot be parsed ("not a url").
C9_DomainNormalization ==
    (script = "analyze" /\ pc = "done") =>
        \A i \in DOMAIN bookmarks :
           \E k \in DOMAIN domains : domains[k].domain = ClaimedDomain(bookmarks[i].url)

RECURSIVE SumCounts(_)
SumCounts(entries) ==
    IF entries = <<>> THEN 0 ELSE Head(entries).count + SumCounts(Tail(entries))

\* C10: each domain's count is the number of records normalizing to it, and the
\* rollup of each hosting suffix is the sum of the counts of the distinct
\* domains ending in it.
C10_HostingRollup ==
    (script = "analyze" /\ pc = "done") =>
        /\ \A k, l \in DOMAIN domains : domains[k].domain = domains[l].domain => k = l
        /\ {domains[k].domain : k \in DOMAIN domains}
              = {extract_domain(bookmarks[i].url) : i \in DOMAIN bookmarks}
        /\ \A k \in DOMAIN domains :
              domains[k].count =
                 Cardinality({i \in DOMAIN bookmarks :
                                 extract_domain(bookmarks[i].url) = domains[k].domain})
        /\ \A h \in HostingSuffixes :
              LET Ends(e) == endswith(e.domain, h)
              IN  /\ hosting[h] = SumCounts(SelectSeq(domains, Ends))
                  /\ hosting[h] = Cardinality({i \in DOMAIN bookmarks :
                                       endswith(extract_domain(bookmarks[i].url), h)})

\* two records of one github.io domain were rolled up
C10_Witness ==
    /\ script = "analyze" /\ pc = "done"
    /\ Len(bookmarks) = 2
    /\ Len(domains) = 1
    /\ \E h \in HostingSuffixes : hosting[h] = 2
====
